---- MODULE Spec2Model ----
(***************************************************************************)
(* State-machine model of the numerai-agentic-ai data layer:               *)
(*   - PerplexityNumeraiDevKit (src/src/data/perplexity_devkit.py): the    *)
(*     market-intelligence client and its perf_metrics telemetry;          *)
(*   - NumeraiSignalGenerator (src/src/signals/signal_generator.py): the   *)
(*     composite-score synthesizer, validator and exporter;                *)
(*   - FinnhubDataFetcher (src/src/data/finnhub_fetcher.py): the           *)
(*     fundamentals client and its request cadence counter;                *)
(*   - main (src/src/main.py): the pipeline run over the watchlist.        *)
(* Floats are fixed-point integers in units of 1/Scale; NaN and None are   *)
(* distinguished values.                                                   *)
(***************************************************************************)
EXTENDS Integers, Sequences, FiniteSets, TLC

VARIABLES
    total_requests,   \* perf_metrics["total_requests"]
    avg_latency_ms,   \* perf_metrics["avg_latency_ms"]: list of latency samples
    errors,           \* perf_metrics["errors"]: list of error records
    call,             \* the last client call: operation, arguments, provider outcome
    ret,              \* what that call returned to its caller
    errHistory,       \* history: every error record ever appended, in order
    signals,          \* NumeraiSignalGenerator.signals (rows of the DataFrame)
    files,            \* the file system seen by export: path -> contents
    sigCall,          \* the last generator call and what it was given
    sigRet,           \* what that call returned (or the exception it raised)
    request_count,    \* FinnhubDataFetcher.request_count
    last_request_time,\* FinnhubDataFetcher.last_request_time, seconds
    clock,            \* datetime.now(), seconds since the fetcher was built
    fhCall,           \* the last fundamentals call and the provider's outcome
    fhRet,            \* what that call returned
    tracked,          \* history: successful calls since the last window reset
    run               \* main(): its position and its local variables

clientVars == <<total_requests, avg_latency_ms, errors, call, ret, errHistory>>
signalVars == <<signals, files, sigCall, sigRet>>
finnhubVars == <<request_count, last_request_time, clock, fhCall, fhRet, tracked>>
vars == <<total_requests, avg_latency_ms, errors, call, ret, errHistory,
          signals, files, sigCall, sigRet,
          request_count, last_request_time, clock, fhCall, fhRet, tracked, run>>

---------------------------------------------------------------------------
(* Bounds of the model                                                     *)

MaxBatch == 6          \* longest query list handed to batch_market_news
MaxErrors == 6         \* cap on perf_metrics["errors"] in the client specification
MaxSamples == 2        \* cap on latency samples in the client specification
MaxNewsErrors == 1     \* the same caps in the news-batch specification
MaxNewsSamples == 1
MaxClock == 125        \* the fundamentals specification stops the clock here

(* Program constants                                                       *)

BatchCeiling == 5      \* `if len(queries) > 5`, `queries[:5]`
RecentWindow == 5      \* `self.perf_metrics["errors"][-5:]`
WindowSeconds == 60    \* `if elapsed >= 60`

Latencies == {250}                 \* measured latency of one call, ms
Now == "now"                       \* datetime.now().isoformat()
SecTickers == {"AAPL"}
FilingTypes == {"10-Q"}
Companies == {"AAPL"}

EmptyMap == << >>                  \* the dict {}

---------------------------------------------------------------------------
(* Provider responses                                                      *)

\* A query list: query i is the string with identity q[i]; equal numbers are
\* equal strings.
Distinct(n) == [i \in 1..n |-> i]
DupLast(n) == [i \in 1..n |-> IF i = n THEN n - 1 ELSE i]
DupFirst(n) == [i \in 1..n |-> IF i = 1 THEN 1 ELSE i - 1]

Batches ==
    {Distinct(n) : n \in 0..MaxBatch}
        \cup {DupLast(n) : n \in 2..MaxBatch}
        \cup {DupFirst(n) : n \in 3..MaxBatch}

\* Group i of a grouped response holds the one hit i, or nothing.
Group(i, emptyAt) == IF i = emptyAt THEN << >> ELSE <<i>>

\* What client.search.create can do for d dispatched queries: raise (culprit
\* is the position of the query the provider failed on, 0 when the whole
\* request failed), answer with a flat list of hits, or answer with a list of
\* per-query groups.
Raises(d) == {[kind |-> "raise", culprit |-> c, message |-> "ProviderError"] :
                 c \in {0, 1, d} \cap 0..d}
FlatResponses == {[kind |-> "flat", hits |-> h] : h \in {<< >>, <<1>>}}
GroupedResponses(d) ==
    {[kind |-> "grouped", groups |-> [i \in 1..m |-> Group(i, e)]] :
        m \in {d - 1, d, d + 1} \cap 1..(MaxBatch + 1), e \in {0, 1}}

SearchResponses(d) == Raises(d) \cup FlatResponses \cup GroupedResponses(d)

---------------------------------------------------------------------------
(* PerplexityNumeraiDevKit                                                 *)

\* mutant of Truncate: keeps the last 5 queries instead of the first 5
TruncateKeepsLast(queries) ==
    IF Len(queries) > BatchCeiling
    THEN SubSeq(queries, Len(queries) - BatchCeiling + 1, Len(queries))
    ELSE queries

\* queries[:5] when len(queries) > 5
Truncate(queries) ==
    IF Len(queries) > BatchCeiling THEN SubSeq(queries, 1, BatchCeiling) ELSE queries

\* One parsed hit: the grouped branch adds published_date and timestamp.
ParseHit(r, grouped) == [headline |-> r, dated |-> grouped]

ParseHits(hits, grouped) == [j \in 1..Len(hits) |-> ParseHit(hits[j], grouped)]

\* The last group assigned to key k: parsed[queries[i]] = ... in index order.
LastIndexOf(queries, m, k) ==
    CHOOSE i \in 1..m : queries[i] = k /\ \A j \in (i + 1)..m : queries[j] # k

\* _parse_batch_results: a dict, or the exception it raises.
ParseBatchResults(resp, queries) ==
    IF resp.kind = "flat"
    THEN IF resp.hits = << >> \/ queries = << >>
         THEN [ok |-> FALSE, message |-> "IndexError"]      \* results[0], queries[0]
         ELSE [ok |-> TRUE,
               value |-> [k \in {queries[1]} |-> ParseHits(resp.hits, FALSE)]]
    ELSE LET m == Len(resp.groups)
         IN  IF m > Len(queries)
             THEN [ok |-> FALSE, message |-> "IndexError"]  \* queries[i]
             ELSE [ok |-> TRUE,
                   value |-> [k \in {queries[i] : i \in 1..m} |->
                       ParseHits(resp.groups[LastIndexOf(queries, m, k)], TRUE)]]

\* _record_metric
RecordMetric(requests, latency_ms) ==
    /\ total_requests' = total_requests + requests
    /\ avg_latency_ms' = Append(avg_latency_ms, latency_ms)

\* xs[-n:]
LastN(xs, n) == IF Len(xs) <= n THEN xs ELSE SubSeq(xs, Len(xs) - n + 1, Len(xs))

\* mutant of RecordError: a ring buffer that evicts the oldest record when full
RecordErrorEvicts(record) ==
    /\ errors' = LastN(Append(errors, record), RecentWindow)
    /\ errHistory' = Append(errHistory, record)

\* self.perf_metrics["errors"].append(record)
RecordError(record) ==
    /\ errors' = Append(errors, record)
    /\ errHistory' = Append(errHistory, record)

\* batch_market_news(queries)
BatchMarketNews(queries, resp, latency) ==
    LET dispatched == Truncate(queries)
        parsed == ParseBatchResults(resp, dispatched)
        failure == IF resp.kind = "raise" THEN resp.message ELSE parsed.message
    IN  /\ call' = [op |-> "batch_market_news", queries |-> queries,
                    dispatched |-> dispatched, resp |-> resp]
        /\ IF resp.kind # "raise" /\ parsed.ok
           THEN /\ RecordMetric(Len(dispatched), latency)
                /\ ret' = parsed.value
                /\ UNCHANGED <<errors, errHistory>>
           ELSE /\ RecordError([type |-> "batch_news", message |-> failure,
                                timestamp |-> Now])
                /\ ret' = EmptyMap
                /\ UNCHANGED <<total_requests, avg_latency_ms>>
        /\ UNCHANGED signalVars

\* What client.search.create(search_mode="sec") can do: raise, find nothing,
\* or return one result that is a mapping (has .get) or an SDK object (has not).
SecResponses ==
    {[kind |-> "raise", message |-> "ProviderError"],
     [kind |-> "none"],
     [kind |-> "mapping", title |-> "Form 10-Q"],
     [kind |-> "object", title |-> "Form 10-Q"]}

\* _extract_sec_metrics: filing_result.get(...) needs a mapping; {} when no result.
ExtractSecMetrics(resp, ticker, filing_type) ==
    IF resp.kind = "object"
    THEN [ok |-> FALSE, message |-> "AttributeError"]
    ELSE [ok |-> TRUE,
          value |-> [ticker |-> ticker, filing_type |-> filing_type,
                     company |-> IF resp.kind = "none" THEN "" ELSE resp.title]]

\* fetch_sec_filings(ticker, filing_type)
FetchSecFilings(ticker, filing_type, resp, latency) ==
    LET filing == ExtractSecMetrics(resp, ticker, filing_type)
        failure == IF resp.kind = "raise" THEN resp.message ELSE filing.message
    IN  /\ call' = [op |-> "fetch_sec_filings", ticker |-> ticker, resp |-> resp]
        /\ IF resp.kind # "raise" /\ filing.ok
           THEN /\ RecordMetric(1, latency)
                /\ ret' = filing.value
                /\ UNCHANGED <<errors, errHistory>>
           ELSE /\ RecordError([type |-> "sec_filing", ticker |-> ticker,
                                message |-> failure])
                /\ ret' = EmptyMap
                /\ UNCHANGED <<total_requests, avg_latency_ms>>
        /\ UNCHANGED signalVars

\* What client.chat.create can do: raise, or answer with a message content that
\* is a JSON object, the same object inside a fenced code block, or prose.
ChatResponses ==
    {[kind |-> "raise", message |-> "ProviderError"],
     [kind |-> "content", fenced |-> FALSE, json |-> TRUE],
     [kind |-> "content", fenced |-> TRUE, json |-> TRUE],
     [kind |-> "content", fenced |-> FALSE, json |-> FALSE]}

\* json.loads(content): the text is parsed as it stands, fences included.
JsonLoads(resp, company) ==
    IF resp.json /\ ~resp.fenced
    THEN [ok |-> TRUE, value |-> [company |-> company, pe_ratio |-> 285]]
    ELSE [ok |-> FALSE, message |-> "JSONDecodeError"]

\* extract_financial_metrics(company_name): the except branch only logs.
ExtractFinancialMetrics(company, resp, latency) ==
    LET metrics == JsonLoads(resp, company)
    IN  /\ call' = [op |-> "extract_financial_metrics", company |-> company,
                    resp |-> resp]
        /\ IF resp.kind # "raise" /\ metrics.ok
           THEN /\ RecordMetric(1, latency)
                /\ ret' = metrics.value
           ELSE /\ ret' = EmptyMap
                /\ UNCHANGED <<total_requests, avg_latency_ms>>
        /\ UNCHANGED <<errors, errHistory>>
        /\ UNCHANGED signalVars

\* sum(xs)
RECURSIVE Sum(_)
Sum(xs) == IF xs = << >> THEN 0 ELSE Head(xs) + Sum(Tail(xs))

\* mutant of HealthMetrics: errors[:5], the oldest records
HealthMetricsOldest ==
    [total_requests |-> total_requests,
     avg_latency_ms |-> IF avg_latency_ms # << >>
                        THEN Sum(avg_latency_ms) \div Len(avg_latency_ms) ELSE 0,
     error_count |-> Len(errors),
     recent_errors |-> SubSeq(errors, 1, IF Len(errors) < RecentWindow
                                         THEN Len(errors) ELSE RecentWindow)]

\* get_health_metrics() on the current state (uptime_hours left out: it reads
\* the wall clock only)
HealthMetrics ==
    [total_requests |-> total_requests,
     avg_latency_ms |-> IF avg_latency_ms # << >>
                        THEN Sum(avg_latency_ms) \div Len(avg_latency_ms) ELSE 0,
     error_count |-> Len(errors),
     recent_errors |-> LastN(errors, RecentWindow)]

---------------------------------------------------------------------------
(* NumeraiSignalGenerator                                                  *)

Scale == 10000000                  \* fixed point: 1.0 is Scale

Num(n) == [tag |-> "num", v |-> n] \* a finite float
NaN == [tag |-> "nan"]             \* float('nan')
None == [tag |-> "none"]           \* Python None
Absent == [tag |-> "absent"]       \* the key is not in the dict

Tickers == {"AAPL", "MSFT"}
Paths == {"signals.csv"}

\* 1 / (1 + exp(-k)) for k = -17 .. 17, in units of 1/Scale
LogisticTable ==
    <<0, 1, 3, 8, 23, 61, 167, 454, 1234, 3354, 9111, 24726, 66929, 179862,
      474259, 1192029, 2689414, 5000000, 7310586, 8807971, 9525741, 9820138,
      9933071, 9975274, 9990889, 9996646, 9998766, 9999546, 9999833, 9999939,
      9999977, 9999992, 9999997, 9999999, 10000000>>

\* 1 / (1 + np.exp(-x / 10)): beyond |x / 10| = 17 the float is within 1e-7
\* of 0 or 1 (np.exp overflows to inf without raising)
Logistic(x) ==
    LET k == x \div 10
    IN  IF k < -17 THEN 0 ELSE IF k > 17 THEN Scale ELSE LogisticTable[k + 18]

\* mutant of Clip: the composite is returned without clamping
ClipOmitted(c) == c

\* np.clip(c, 0, 1)
Clip(c) == IF c < 0 THEN 0 ELSE IF c > Scale THEN Scale ELSE c

\* _calculate_composite_signal: None in the arithmetic raises TypeError, NaN
\* propagates through every term and through np.clip
CalculateCompositeSignal(sentiment, pe_ratio, revenue_growth, data_quality) ==
    LET args == <<sentiment, pe_ratio, revenue_growth, data_quality>>
    IN  IF \E i \in 1..4 : args[i].tag = "none"
        THEN [ok |-> FALSE, message |-> "TypeError"]
        ELSE IF \E i \in 1..4 : args[i].tag = "nan"
        THEN [ok |-> TRUE, value |-> NaN]
        ELSE LET sentiment_score == (sentiment.v + Scale) \div 2
                 pe_score == Logistic(-(pe_ratio.v - 20))
                 growth_score == Logistic(revenue_growth.v)
                 composite == (30 * sentiment_score + 30 * pe_score
                               + 30 * growth_score + 10 * data_quality.v) \div 100
             IN  [ok |-> TRUE, value |-> Num(Clip(composite))]

\* d.get(key, default) on a dict given as a record of its possible keys
Get(d, key, default) == IF d[key].tag = "absent" THEN default ELSE d[key]

EmptyDict == [tag |-> "dict", pe_ratio |-> Absent, revenue_growth_yoy |-> Absent,
              quality_score |-> Absent]

\* The try block of generate_from_analysis for one ticker: metrics and sec_data
\* default to {}; .get on a None entry raises AttributeError.
ResolveSignal(sentiment, metricsEntry, secEntry) ==
    LET metrics == IF metricsEntry.tag = "absent" THEN EmptyDict ELSE metricsEntry
        sec_data == IF secEntry.tag = "absent" THEN EmptyDict ELSE secEntry
    IN  IF metrics.tag = "none" \/ sec_data.tag = "none"
        THEN [ok |-> FALSE, message |-> "AttributeError"]
        ELSE CalculateCompositeSignal(
                 sentiment,
                 Get(metrics, "pe_ratio", Num(20)),
                 Get(metrics, "revenue_growth_yoy", Num(0)),
                 Get(sec_data, "quality_score", Num(Scale \div 2)))

\* mutant of GenerateRows: an entity whose resolution raised gets a zero score
RECURSIVE GenerateRowsZeroFill(_, _, _)
GenerateRowsZeroFill(news_sentiment, fundamentals, sec_insights) ==
    IF news_sentiment = << >>
    THEN << >>
    ELSE LET ticker == Head(news_sentiment).ticker
             r == ResolveSignal(Head(news_sentiment).sentiment,
                                fundamentals[ticker], sec_insights[ticker])
             rest == GenerateRowsZeroFill(Tail(news_sentiment), fundamentals,
                                          sec_insights)
         IN  <<[ticker |-> ticker,
                signal |-> IF r.ok THEN r.value ELSE Num(0),
                timestamp |-> Now]>> \o rest

\* The loop of generate_from_analysis over news_sentiment.keys(): one row per
\* ticker whose try block completed, `continue` for the others.
RECURSIVE GenerateRows(_, _, _)
GenerateRows(news_sentiment, fundamentals, sec_insights) ==
    IF news_sentiment = << >>
    THEN << >>
    ELSE LET ticker == Head(news_sentiment).ticker
             r == ResolveSignal(Head(news_sentiment).sentiment,
                                fundamentals[ticker], sec_insights[ticker])
             rest == GenerateRows(Tail(news_sentiment), fundamentals, sec_insights)
         IN  IF r.ok
             THEN <<[ticker |-> ticker, signal |-> r.value, timestamp |-> Now]>>
                      \o rest
             ELSE rest

\* generate_from_analysis(news_sentiment, fundamentals, sec_insights)
GenerateFromAnalysis(news_sentiment, fundamentals, sec_insights) ==
    /\ signals' = GenerateRows(news_sentiment, fundamentals, sec_insights)
    /\ sigCall' = [op |-> "generate_from_analysis",
                   news_sentiment |-> news_sentiment,
                   fundamentals |-> fundamentals, sec_insights |-> sec_insights]
    /\ sigRet' = signals'
    /\ UNCHANGED files
    /\ UNCHANGED clientVars

\* mutant of Between: a tolerance of one unit above 1
BetweenTolerant(x) == x.tag = "num" /\ 0 <= x.v /\ x.v <= Scale + 1

\* Series.between(0, 1) on one score: False for NaN
Between(x) == x.tag = "num" /\ 0 <= x.v /\ x.v <= Scale

\* Series.isnull() on one score
IsNull(x) == x.tag # "num"

\* validate_signals on a table: its result and the message it logs
ValidateTable(table) ==
    IF table = << >>
    THEN [ok |-> FALSE, log |-> "No signals generated"]
    ELSE IF ~(\A i \in 1..Len(table) : Between(table[i].signal))
    THEN [ok |-> FALSE, log |-> "Signals outside valid range [0, 1]"]
    ELSE IF \E i \in 1..Len(table) : IsNull(table[i].signal)
    THEN [ok |-> FALSE, log |-> "Null values in signals"]
    ELSE [ok |-> TRUE, log |-> "Validated"]

\* validate_signals()
ValidateSignals ==
    /\ sigCall' = [op |-> "validate_signals"]
    /\ sigRet' = ValidateTable(signals)
    /\ UNCHANGED <<signals, files>>
    /\ UNCHANGED clientVars

\* mutant of CsvOf: every column of the table is written, timestamp included
CsvOfAllColumns(table) ==
    [header |-> <<"ticker", "signal", "timestamp">>,
     rows |-> [i \in 1..Len(table) |->
                  <<table[i].ticker, table[i].signal, table[i].timestamp>>]]

\* self.signals[['ticker', 'signal']] written by to_csv(index=False)
CsvOf(table) ==
    [header |-> <<"ticker", "signal">>,
     rows |-> [i \in 1..Len(table) |-> <<table[i].ticker, table[i].signal>>]]

\* mutant of ExportForNumerai: the file is written before validation is looked at
ExportWritesFirst(output_path) ==
    /\ sigCall' = [op |-> "export_for_numerai", output_path |-> output_path]
    /\ files' = [files EXCEPT ![output_path] = CsvOf(signals)]
    /\ sigRet' = IF ValidateTable(signals).ok
                  THEN [raised |-> FALSE, value |-> output_path]
                  ELSE [raised |-> TRUE, value |-> "ValueError"]
    /\ UNCHANGED signals
    /\ UNCHANGED clientVars

\* export_for_numerai(output_path)
ExportForNumerai(output_path) ==
    /\ sigCall' = [op |-> "export_for_numerai", output_path |-> output_path]
    /\ IF ~ValidateTable(signals).ok
       THEN /\ sigRet' = [raised |-> TRUE, value |-> "ValueError"]
            /\ UNCHANGED files
       ELSE /\ files' = [files EXCEPT ![output_path] = CsvOf(signals)]
            /\ sigRet' = [raised |-> FALSE, value |-> output_path]
    /\ UNCHANGED signals
    /\ UNCHANGED clientVars

---------------------------------------------------------------------------
(* FinnhubDataFetcher                                                      *)

\* seconds that pass between two readings of the clock
Delays == {20, 59, 60}

FinnhubOps == {"get_company_profile", "get_financial_metrics", "get_quote"}

\* what a finnhub.Client call can do: return its payload, or raise
FinnhubResponses == {[kind |-> "ok", payload |-> [metric |-> "data"]],
                     [kind |-> "raise", message |-> "ProviderError"]}

\* mutant of TrackRequest: the call that resets the window is counted in it
TrackRequestCountsTrigger(now) ==
    IF now - last_request_time >= WindowSeconds
    THEN /\ request_count' = 1
         /\ last_request_time' = now
    ELSE /\ request_count' = request_count + 1
         /\ UNCHANGED last_request_time

\* _track_request, with current_time = now
TrackRequest(now) ==
    IF now - last_request_time >= WindowSeconds
    THEN /\ request_count' = 0
         /\ last_request_time' = now
    ELSE /\ request_count' = request_count + 1
         /\ UNCHANGED last_request_time

\* mutant of FinnhubReturn: no except branch, the provider's exception leaves
\* the call
FinnhubReturnPropagates(resp) ==
    IF resp.kind = "ok"
    THEN [raised |-> FALSE, value |-> resp.payload]
    ELSE [raised |-> TRUE, value |-> resp.message]

\* what the try / except of a get_* method hands back: the payload, or {}
FinnhubReturn(resp) ==
    IF resp.kind = "ok"
    THEN [raised |-> FALSE, value |-> resp.payload]
    ELSE [raised |-> FALSE, value |-> EmptyMap]

\* get_company_profile / get_financial_metrics / get_quote: the provider call
\* takes `delay` seconds; _track_request runs only when it returned.
\* (batch_quotes is get_quote once per ticker, each one such step.)
FinnhubCall(op, ticker, resp, delay) ==
    /\ clock' = clock + delay
    /\ fhCall' = [op |-> op, ticker |-> ticker, ok |-> resp.kind = "ok"]
    /\ fhRet' = FinnhubReturn(resp)
    /\ IF resp.kind = "ok"
       THEN /\ TrackRequest(clock')
            /\ tracked' = IF clock' - last_request_time >= WindowSeconds
                           THEN 0 ELSE tracked + 1
       ELSE UNCHANGED <<request_count, last_request_time, tracked>>

FinnhubInit ==
    /\ request_count = 0
    /\ last_request_time = 0
    /\ clock = 0
    /\ fhCall = [op |-> "none"]
    /\ fhRet = [raised |-> FALSE, value |-> EmptyMap]
    /\ tracked = 0

---------------------------------------------------------------------------
(* Specifications of the client                                            *)

NoCall == [op |-> "none"]
NoFile == [header |-> << >>, rows |-> << >>]   \* the path does not exist

ClientInit ==
    /\ total_requests = 0
    /\ avg_latency_ms = << >>
    /\ errors = << >>
    /\ errHistory = << >>
    /\ call = NoCall
    /\ ret = EmptyMap

SignalsIdle ==
    /\ signals = << >>
    /\ files = [p \in Paths |-> NoFile]
    /\ sigCall = NoCall
    /\ sigRet = None

\* the caps on the telemetry lists, applied to the step's outcome
Within(maxSamples, maxErrors) ==
    /\ Len(avg_latency_ms') <= maxSamples
    /\ Len(errors') <= maxErrors

\* Client specification: every operation; batch_market_news on short query lists
\* with a provider that answers one group per query or fails.
ClientBatches == {Distinct(1), Distinct(2)}
ClientSearchResponses(d) ==
    {r \in SearchResponses(d) :
        \/ r.kind = "raise" /\ r.culprit = 0
        \/ r.kind = "grouped" /\ Len(r.groups) = d /\ \A i \in 1..d : r.groups[i] # << >>}

NewsStep ==
    \E q \in ClientBatches, l \in Latencies :
        \E r \in ClientSearchResponses(Len(Truncate(q))) :
            /\ BatchMarketNews(q, r, l) /\ Within(MaxSamples, MaxErrors)
            /\ UNCHANGED <<finnhubVars, run>>

SecStep ==
    \E t \in SecTickers, f \in FilingTypes, r \in SecResponses, l \in Latencies :
        /\ FetchSecFilings(t, f, r, l) /\ Within(MaxSamples, MaxErrors)
        /\ UNCHANGED <<finnhubVars, run>>

ExtractStep ==
    \E c \in Companies, r \in ChatResponses, l \in Latencies :
        /\ ExtractFinancialMetrics(c, r, l) /\ Within(MaxSamples, MaxErrors)
        /\ UNCHANGED <<finnhubVars, run>>

NotRunning == [pc |-> "idle"]      \* main() has not been called

Init == ClientInit /\ SignalsIdle /\ FinnhubInit /\ run = NotRunning
Next == NewsStep \/ SecStep \/ ExtractStep
Spec == Init /\ [][Next]_vars

\* News specification: batch_market_news alone, on every query list and every
\* provider response of the model.
NewsBatchStep ==
    \E q \in Batches, l \in Latencies :
        \E r \in SearchResponses(Len(Truncate(q))) :
            /\ BatchMarketNews(q, r, l) /\ Within(MaxNewsSamples, MaxNewsErrors)
            /\ UNCHANGED <<finnhubVars, run>>

NewsFilingStep ==
    \E t \in SecTickers, f \in FilingTypes, r \in SecResponses, l \in Latencies :
        /\ FetchSecFilings(t, f, r, l) /\ Within(MaxNewsSamples, MaxNewsErrors)
        /\ UNCHANGED <<finnhubVars, run>>

NextNews == NewsBatchStep \/ NewsFilingStep
SpecNews == Init /\ [][NextNews]_vars

---------------------------------------------------------------------------
(* Specification of the signal generator                                   *)

\* What one ticker's inputs can be: its sentiment, its entry in fundamentals
\* and its entry in sec_insights.
Metrics(pe, growth) == [EmptyDict EXCEPT !.pe_ratio = pe, !.revenue_growth_yoy = growth]
Insights(quality) == [EmptyDict EXCEPT !.quality_score = quality]

FeatureCases ==
    {[sentiment |-> Num(6 * (Scale \div 10)), metrics |-> Absent, sec |-> Absent],
     [sentiment |-> Num(Scale), metrics |-> Metrics(Num(20), Num(0)),
      sec |-> Insights(Num(Scale \div 2))],
     [sentiment |-> Num(5 * Scale), metrics |-> EmptyDict, sec |-> Absent],
     [sentiment |-> Num(-5 * Scale), metrics |-> Metrics(Num(10000), Num(-10000)),
      sec |-> Absent],
     [sentiment |-> NaN, metrics |-> Absent, sec |-> Absent],
     [sentiment |-> None, metrics |-> Absent, sec |-> Absent],
     [sentiment |-> Num(6 * (Scale \div 10)), metrics |-> None, sec |-> Absent],
     [sentiment |-> Num(6 * (Scale \div 10)), metrics |-> Metrics(None, Absent),
      sec |-> Absent]}

\* the key orders of news_sentiment: every sequence of distinct tickers
KeyOrders ==
    {o \in UNION {[1..n -> Tickers] : n \in 0..Cardinality(Tickers)} :
        \A i, j \in 1..Len(o) : o[i] = o[j] => i = j}

Row(t, x) == [ticker |-> t, signal |-> x, timestamp |-> Now]

\* Tables the generator may hold when validate or export is called: the empty
\* table of __init__, and tables assigned to .signals directly.
InitTables ==
    {<< >>,
     <<Row("AAPL", Num(Scale + 1))>>,
     <<Row("AAPL", Num(-1))>>,
     <<Row("AAPL", NaN)>>,
     <<Row("AAPL", Num(0)), Row("MSFT", Num(Scale))>>,
     <<Row("AAPL", Num(Scale \div 2)), Row("MSFT", NaN)>>,
     <<Row("AAPL", Num(Scale \div 2)), Row("MSFT", Num(2 * Scale))>>}

SignalsInit ==
    /\ signals \in InitTables
    /\ files = [p \in Paths |-> NoFile]
    /\ sigCall = NoCall
    /\ sigRet = None

\* tickers outside news_sentiment still have entries in the other two dicts
OutsideCases == {c \in FeatureCases : c.sentiment = Num(Scale)}

GenerateStep ==
    \E o \in KeyOrders :
      \E c \in {f \in [Tickers -> FeatureCases] :
                   \A t \in Tickers \ {o[i] : i \in 1..Len(o)} : f[t] \in OutsideCases} :
        /\ GenerateFromAnalysis(
               [i \in 1..Len(o) |-> [ticker |-> o[i], sentiment |-> c[o[i]].sentiment]],
               [t \in Tickers |-> c[t].metrics],
               [t \in Tickers |-> c[t].sec])
        /\ UNCHANGED <<finnhubVars, run>>

ValidateStep == ValidateSignals /\ UNCHANGED <<finnhubVars, run>>

ExportStep == \E p \in Paths : ExportForNumerai(p) /\ UNCHANGED <<finnhubVars, run>>

InitSignals == ClientInit /\ SignalsInit /\ FinnhubInit /\ run = NotRunning
NextSignals == GenerateStep \/ ValidateStep \/ ExportStep
SpecSignals == InitSignals /\ [][NextSignals]_vars

---------------------------------------------------------------------------
(* Specification of the fundamentals client                                *)

FinnhubTickers == {"AAPL"}

FinnhubStep ==
    \E op \in FinnhubOps, t \in FinnhubTickers, r \in FinnhubResponses, d \in Delays :
        /\ clock + d <= MaxClock
        /\ FinnhubCall(op, t, r, d)
        /\ UNCHANGED <<clientVars, signalVars, run>>

NextFinnhub == FinnhubStep
SpecFinnhub == Init /\ [][NextFinnhub]_vars

---------------------------------------------------------------------------
(* main(): one pipeline run                                                *)

Watchlist == <<"AAPL", "MSFT", "GOOGL", "AMZN", "NVDA",
               "TSLA", "META", "BRK.B", "JNJ", "V">>
NewsPrefix == 5                    \* tickers[:5]
FilingPrefix == 3                  \* tickers[:3]
MainOutputPath == "data/signals/output.csv"
MainSentiment == Num(6 * (Scale \div 10))   \* the mock sentiment 0.6

\* what the providers do during a run
MainSearchResponses ==
    {r \in SearchResponses(NewsPrefix) :
        \/ r.kind = "raise" /\ r.culprit = 0
        \/ r.kind = "grouped" /\ Len(r.groups) = NewsPrefix /\ r.groups[1] # << >>}
MainSecResponses == {r \in SecResponses : r.kind \in {"raise", "mapping"}}
MainDelays == {20}

\* dict {ticker: value} built by a loop over a prefix of the watchlist
Filled(d, ticker, value) ==
    [t \in (DOMAIN d) \cup {ticker} |-> IF t = ticker THEN value ELSE d[t]]

MainTickers == {Watchlist[i] : i \in 1..Len(Watchlist)}

\* d.get(ticker, {}) as generate_from_analysis reads it: of the keys it looks
\* up (pe_ratio, revenue_growth_yoy, quality_score) the provider dicts hold
\* none; a ticker without an entry is Absent.
AsRead(d, ticker) == IF ticker \in DOMAIN d THEN EmptyDict ELSE Absent

MainInit ==
    run = [pc |-> "news", i |-> 1, news_data |-> EmptyMap, sec_data |-> EmptyMap,
           fundamentals |-> EmptyMap, failed |-> {}, health |-> EmptyMap]

\* Step 1: news_data = perplexity.batch_market_news(news_queries, max_results=3)
MainNews ==
    /\ run.pc = "news"
    /\ \E r \in MainSearchResponses, l \in Latencies :
          /\ BatchMarketNews(Distinct(NewsPrefix), r, l)
          /\ run' = [run EXCEPT !.pc = "sec", !.news_data = ret',
                                !.failed = IF r.kind = "raise"
                                           THEN @ \cup {<<"news", "batch">>} ELSE @]
    /\ UNCHANGED finnhubVars

\* Step 2: one iteration of `for ticker in tickers[:3]`
MainSec ==
    /\ run.pc = "sec"
    /\ \E r \in MainSecResponses, l \in Latencies :
          LET ticker == Watchlist[run.i]
          IN  /\ FetchSecFilings(ticker, "10-Q", r, l)
              /\ run' = [run EXCEPT
                     !.sec_data = Filled(@, ticker, ret'),
                     !.failed = IF r.kind = "raise"
                                THEN @ \cup {<<"sec", ticker>>} ELSE @,
                     !.i = IF run.i = FilingPrefix THEN 1 ELSE @ + 1,
                     !.pc = IF run.i = FilingPrefix THEN "fundamentals" ELSE @]
    /\ UNCHANGED finnhubVars

\* Step 3: one iteration of `for ticker in tickers`; an exception leaving
\* get_financial_metrics would leave main()
MainFundamentals ==
    /\ run.pc = "fundamentals"
    /\ \E r \in FinnhubResponses, d \in MainDelays :
          LET ticker == Watchlist[run.i]
          IN  /\ FinnhubCall("get_financial_metrics", ticker, r, d)
              /\ run' = IF fhRet'.raised
                         THEN [run EXCEPT !.pc = "raised"]
                         ELSE [run EXCEPT
                                 !.fundamentals = Filled(@, ticker, fhRet'.value),
                                 !.failed = IF r.kind = "raise"
                                            THEN @ \cup {<<"fundamentals", ticker>>}
                                            ELSE @,
                                 !.i = IF run.i = Len(Watchlist) THEN 1 ELSE @ + 1,
                                 !.pc = IF run.i = Len(Watchlist)
                                        THEN "generate" ELSE @]
    /\ UNCHANGED <<clientVars, signalVars>>

\* Step 4: signal_gen.generate_from_analysis with the mock sentiment
MainGenerate ==
    /\ run.pc = "generate"
    /\ \E news_sentiment \in {[i \in 1..Len(Watchlist) |->
                                 [ticker |-> Watchlist[i],
                                  sentiment |-> MainSentiment]]},
          fundamentals \in {[t \in MainTickers |->
                                AsRead(run.fundamentals, t)]},
          sec_insights \in {[t \in MainTickers |->
                                AsRead(run.sec_data, t)]} :
          GenerateFromAnalysis(news_sentiment, fundamentals, sec_insights)
    /\ run' = [run EXCEPT !.pc = "export"]
    /\ UNCHANGED finnhubVars

\* Step 5: signal_gen.export_for_numerai("data/signals/output.csv"); its
\* ValueError is not caught by main()
MainExport ==
    /\ run.pc = "export"
    /\ ExportForNumerai(MainOutputPath)
    /\ run' = [run EXCEPT !.pc = IF sigRet'.raised THEN "raised" ELSE "health"]
    /\ UNCHANGED finnhubVars

\* Step 6: health = perplexity.get_health_metrics(), then the return
MainHealth ==
    /\ run.pc = "health"
    /\ run' = [run EXCEPT !.pc = "done", !.health = HealthMetrics]
    /\ UNCHANGED <<clientVars, signalVars, finnhubVars>>

InitMain ==
    /\ ClientInit
    /\ FinnhubInit
    /\ signals = << >>
    /\ files = [p \in {MainOutputPath} |-> NoFile]
    /\ sigCall = NoCall
    /\ sigRet = None
    /\ MainInit

NextMain ==
    \/ MainNews
    \/ MainSec
    \/ MainFundamentals
    \/ MainGenerate
    \/ MainExport
    \/ MainHealth

\* main() is one sequential thread: it takes its next step whenever it has one.
SpecMain == InitMain /\ [][NextMain]_vars /\ WF_vars(NextMain)

---------------------------------------------------------------------------
(* Claims about the signal generator (SpecSignals)                         *)

IsNum(x) == x.tag = "num"

\* what the validation contract rejects: an empty table, a null score, a score
\* outside [0, 1]
FailsValidation(table) ==
    \/ table = << >>
    \/ \E i \in 1..Len(table) :
           \/ ~IsNum(table[i].signal)
           \/ IsNum(table[i].signal)
                  /\ (table[i].signal.v < 0 \/ table[i].signal.v > Scale)

\* C3: an export of a table that fails validation raises to the caller and
\* leaves every file as it was.
C3_NoWriteOnInvalid ==
    [][(sigCall'.op = "export_for_numerai" /\ FailsValidation(signals))
          => (files' = files /\ sigRet'.raised)]_vars

\* C3 witness: a refused export after an earlier export wrote the file.
C3_Witness ==
    /\ sigCall.op = "export_for_numerai"
    /\ sigRet.raised
    /\ FailsValidation(signals)
    /\ \E p \in Paths : files[p] # NoFile

\* an input of the entity is None where a number or a dict is needed
InputRaises(sentiment, m, s) ==
    \/ sentiment.tag = "none"
    \/ m.tag = "none"
    \/ s.tag = "none"
    \/ m.tag = "dict" /\ (m.pe_ratio.tag = "none" \/ m.revenue_growth_yoy.tag = "none")
    \/ s.tag = "dict" /\ s.quality_score.tag = "none"

\* the keys of news_sentiment whose inputs resolve, in insertion order
RECURSIVE ResolvableKeys(_, _, _)
ResolvableKeys(ns, f, s) ==
    IF ns = << >>
    THEN << >>
    ELSE LET t == Head(ns).ticker
         IN  (IF InputRaises(Head(ns).sentiment, f[t], s[t]) THEN << >> ELSE <<t>>)
                 \o ResolvableKeys(Tail(ns), f, s)

IsGenerateCall == sigCall.op = "generate_from_analysis"

\* C4: the table holds exactly one row for each key of news_sentiment whose
\* inputs resolved and none for a key whose resolution raised, in the insertion
\* order of news_sentiment, and no row for any other ticker.
C4_RowsAreResolvedKeys ==
    IsGenerateCall
    => [i \in 1..Len(signals) |-> signals[i].ticker]
           = ResolvableKeys(sigCall.news_sentiment, sigCall.fundamentals,
                            sigCall.sec_insights)

\* C4 witness: two keys, the first one raised, one row for the second.
C4_Witness ==
    /\ IsGenerateCall
    /\ Len(sigCall.news_sentiment) = 2
    /\ Len(signals) = 1
    /\ signals[1].ticker = sigCall.news_sentiment[2].ticker

\* C5: validate_signals returns false for an empty table, for a score outside
\* [0, 1] (1.0000001 included) and for a null score, and true otherwise.
C5_ValidateDecides ==
    sigCall.op = "validate_signals" => (sigRet.ok <=> ~FailsValidation(signals))

\* C5 witness: a table holding the score 1.0000001 was refused.
C5_Witness ==
    /\ sigCall.op = "validate_signals"
    /\ ~sigRet.ok
    /\ \E i \in 1..Len(signals) : signals[i].signal = Num(Scale + 1)

\* the sentiment (the one input that is NaN in FeatureCases) is finite
FiniteSentiment(ns, t) == \A i \in 1..Len(ns) : ns[i].ticker = t => IsNum(ns[i].sentiment)

\* C6: every score emitted for finite inputs lies in [0, 1].
C6_ScoreInUnitInterval ==
    IsGenerateCall
    => \A i \in 1..Len(signals) :
           FiniteSentiment(sigCall.news_sentiment, signals[i].ticker)
           => /\ IsNum(signals[i].signal)
              /\ 0 <= signals[i].signal.v
              /\ signals[i].signal.v <= Scale

\* C6 witness: PE = 10000 and growth = -10000 gave a row, with score 0.
C6_Witness ==
    /\ IsGenerateCall
    /\ \E i \in 1..Len(signals) :
           LET m == sigCall.fundamentals[signals[i].ticker]
           IN  /\ m.tag = "dict"
               /\ m.pe_ratio = Num(10000)
               /\ m.revenue_growth_yoy = Num(-10000)
               /\ signals[i].signal = Num(0)

\* the table holds a null score and every other score is within [0, 1]
NullOnly(table) ==
    /\ \E i \in 1..Len(table) : ~IsNum(table[i].signal)
    /\ \A i \in 1..Len(table) :
           IsNum(table[i].signal)
               => (0 <= table[i].signal.v /\ table[i].signal.v <= Scale)

\* the table holds no null score and some score outside [0, 1]
OutOfRangeOnly(table) ==
    /\ \A i \in 1..Len(table) : IsNum(table[i].signal)
    /\ \E i \in 1..Len(table) :
           table[i].signal.v < 0 \/ table[i].signal.v > Scale

\* C11: validate_signals logs a distinct message for each failure: the empty
\* message for an empty table, the out-of-range message for a non-null score
\* outside [0, 1], and the null-value message for a table whose only defect is
\* a null score.
C11_DistinctMessages ==
    sigCall.op = "validate_signals"
    => /\ signals = << >> => sigRet.log = "No signals generated"
       /\ OutOfRangeOnly(signals) => sigRet.log = "Signals outside valid range [0, 1]"
       /\ NullOnly(signals) => sigRet.log = "Null values in signals"

\* C12: a successful export returns the path it was given, and the file at
\* that path holds the header (ticker, signal) and one (ticker, signal) row per
\* row of the table, in table order, without the timestamp.
C12_ExportWritesTable ==
    (sigCall.op = "export_for_numerai" /\ ~sigRet.raised)
    => /\ sigRet.value = sigCall.output_path
       /\ LET written == files[sigCall.output_path]
          IN  /\ written.header = <<"ticker", "signal">>
              /\ Len(written.rows) = Len(signals)
              /\ \A i \in 1..Len(signals) :
                     written.rows[i] = <<signals[i].ticker, signals[i].signal>>

\* C12 witness: a table of two rows was exported.
C12_Witness ==
    /\ sigCall.op = "export_for_numerai"
    /\ ~sigRet.raised
    /\ Len(signals) = 2
    /\ Len(files[sigCall.output_path].rows) = 2

---------------------------------------------------------------------------
(* Claims about batch_market_news (SpecNews)                               *)

IsNewsCall == call.op = "batch_market_news"

QuerySet(qs) == {qs[i] : i \in 1..Len(qs)}

Min(a, b) == IF a < b THEN a ELSE b

\* C1: when exactly one query of a batch fails with a provider error, the
\* returned mapping still has a key for every dispatched query, with an empty
\* list for the failed query only.
C1_FailureIsolated ==
    (IsNewsCall /\ call.resp.kind = "raise" /\ call.resp.culprit >= 1
        /\ Len(call.dispatched) >= 2)
    => /\ DOMAIN ret = QuerySet(call.dispatched)
       /\ \A i \in 1..Len(call.dispatched) :
              (ret[call.dispatched[i]] = << >>) <=> (i = call.resp.culprit)

\* C2 as stated: whenever the provider call returns, the mapping has exactly
\* min(n, 5) keys, the first min(n, 5) queries.
C2_ExactlyMinKeys ==
    (IsNewsCall /\ call.resp.kind # "raise")
    => /\ Cardinality(DOMAIN ret) = Min(Len(call.queries), BatchCeiling)
       /\ DOMAIN ret = QuerySet(SubSeq(call.queries, 1,
                                       Min(Len(call.queries), BatchCeiling)))

OneGroupPerQuery ==
    /\ call.resp.kind = "grouped"
    /\ Len(call.resp.groups) = Len(call.dispatched)

PairwiseDistinct(qs) == \A i, j \in 1..Len(qs) : qs[i] = qs[j] => i = j

\* C2 amended: exactly the first min(n, 5) queries are dispatched, in
\* submission order; when the provider answers with one group per dispatched
\* query, the keys of the mapping are exactly the dispatched queries, so there
\* are exactly min(n, 5) keys when those queries are pairwise distinct.
C2_DispatchedPrefixKeys ==
    IsNewsCall
    => /\ call.dispatched =
              SubSeq(call.queries, 1, Min(Len(call.queries), BatchCeiling))
       /\ OneGroupPerQuery
           => /\ DOMAIN ret = QuerySet(call.dispatched)
              /\ PairwiseDistinct(call.dispatched)
                  => Cardinality(DOMAIN ret) = Min(Len(call.queries), BatchCeiling)

\* C2 witness: more than 5 distinct queries, a grouped answer, 5 keys.
C2_Witness ==
    /\ IsNewsCall
    /\ Len(call.queries) > BatchCeiling
    /\ OneGroupPerQuery
    /\ PairwiseDistinct(call.queries)
    /\ Cardinality(DOMAIN ret) = BatchCeiling

---------------------------------------------------------------------------
(* Claims about telemetry (Spec)                                           *)

\* C7: the snapshot's error count equals the number of error records ever
\* recorded since construction, also past 5.
C7_ErrorCountIsTotal == HealthMetrics.error_count = Len(errHistory)

\* C7 witness: more errors recorded than the snapshot lists, all counted.
C7_Witness ==
    /\ Len(errHistory) > RecentWindow
    /\ HealthMetrics.error_count > Len(HealthMetrics.recent_errors)

\* C8: recent_errors holds at most 5 records and is exactly the min(n, 5)
\* most recently recorded ones, in recording order.
C8_RecentAreNewest ==
    LET recent == HealthMetrics.recent_errors
        n == Len(errHistory)
        k == Min(n, RecentWindow)
    IN  /\ Len(recent) = k
        /\ \A i \in 1..k : recent[i] = errHistory[n - k + i]

\* C8 witness: more than 5 errors, and the dropped oldest one differs from
\* the oldest one kept.
C8_Witness ==
    /\ Len(errHistory) > RecentWindow
    /\ errHistory[1] # HealthMetrics.recent_errors[1]

\* requests a call executes: one per dispatched query, one per single fetch
Executed(c) == IF c.op = "batch_market_news" THEN Len(c.dispatched) ELSE 1

\* C9: every call, failed or not, raises total_requests by the number of
\* queries it executed.
C9_EveryCallCounted ==
    [][total_requests' = total_requests + Executed(call')]_vars

\* the call ended in a provider or parse failure
Failed(c) ==
    /\ c.op # "none"
    /\ \/ c.resp.kind = "raise"
       \/ c.op = "batch_market_news" /\ ~ParseBatchResults(c.resp, c.dispatched).ok
       \/ c.op = "fetch_sec_filings" /\ c.resp.kind = "object"
       \/ c.op = "extract_financial_metrics" /\ ~JsonLoads(c.resp, c.company).ok

\* C10: a failed call returns an empty result and leaves the error count one
\* higher than before the call.
C10_FailureRecorded ==
    [][Failed(call') => ret' = EmptyMap /\ Len(errors') = Len(errors) + 1]_vars

---------------------------------------------------------------------------
(* Claims about the fundamentals client (SpecFinnhub)                      *)

\* C14: request_count is the number of successful calls tracked since the
\* last window reset; a failed call changes nothing; a successful call tracked
\* at least 60 seconds after last_request_time sets the counter to 0 (so it is
\* not counted itself) and moves last_request_time to its own time; any other
\* successful call adds one and leaves last_request_time alone.
C14_CadenceCounter ==
    [][LET reset == fhCall'.ok /\ clock' - last_request_time >= 60
       IN  /\ request_count' = tracked'
           /\ reset => (request_count' = 0 /\ last_request_time' = clock')
           /\ (fhCall'.ok /\ ~reset)
                  => (request_count' = request_count + 1
                      /\ last_request_time' = last_request_time)
           /\ ~fhCall'.ok
                  => (request_count' = request_count
                      /\ last_request_time' = last_request_time)]_vars

\* C14 witness: a window was reset by a successful call after earlier ones
\* had been counted, and a failed call came after it.
C14_Witness ==
    /\ last_request_time >= 60
    /\ request_count = 0
    /\ clock > last_request_time
    /\ fhCall.op = "get_quote"
    /\ ~fhCall.ok

---------------------------------------------------------------------------
(* Claims about the pipeline run (SpecMain)                                *)

IsEmptyResult(v) == DOMAIN v = {}

MainExportRan == sigCall.op = "export_for_numerai"

\* a unit's result is empty exactly when that unit's provider call failed
MainFailureStaysLocal ==
    /\ run.pc # "news"
         => (IsEmptyResult(run.news_data) <=> <<"news", "batch">> \in run.failed)
    /\ \A t \in DOMAIN run.sec_data :
         IsEmptyResult(run.sec_data[t]) <=> <<"sec", t>> \in run.failed
    /\ \A t \in DOMAIN run.fundamentals :
         IsEmptyResult(run.fundamentals[t]) <=> <<"fundamentals", t>> \in run.failed

\* by the export step every entity was fetched and has a score
MainAllFetchedAndScored ==
    run.pc \in {"export", "health", "done", "raised"}
    => /\ DOMAIN run.sec_data = {Watchlist[i] : i \in 1..FilingPrefix}
       /\ DOMAIN run.fundamentals = MainTickers
       /\ Len(signals) = Len(Watchlist)
       /\ \A i \in 1..Len(Watchlist) :
            /\ signals[i].ticker = Watchlist[i]
            /\ IsNum(signals[i].signal)

\* the run ends in an error only by the ValueError of a failed validation
MainOnlyValidationEndsRun ==
    run.pc = "raised"
    => /\ MainExportRan
       /\ sigRet.raised
       /\ ~ValidateTable(signals).ok

\* C13: whatever combination of provider calls fails, the run reaches the
\* export step; a failed news batch, filing fetch or fundamentals fetch leaves
\* an empty result for that unit only, every entity is still fetched and
\* scored, and the run ends in an error only through a validation failure at
\* export.
C13_RunReachesExport ==
    /\ <>MainExportRan
    /\ [](MainFailureStaysLocal /\ MainAllFetchedAndScored
           /\ MainOnlyValidationEndsRun)

\* C13 witness: a run whose news batch, one filing fetch and one fundamentals
\* fetch failed has finished with all ten entities exported.
C13_Witness ==
    /\ run.pc = "done"
    /\ <<"news", "batch">> \in run.failed
    /\ <<"sec", "MSFT">> \in run.failed
    /\ <<"sec", "AAPL">> \notin run.failed
    /\ <<"fundamentals", "V">> \in run.failed
    /\ <<"fundamentals", "JNJ">> \notin run.failed
    /\ ~sigRet.raised
    /\ Len(files[MainOutputPath].rows) = Len(Watchlist)

====
